---- MODULE Spec2Model ----
(***************************************************************************)
(* Model of the express-auth-template authentication service:             *)
(* AuthService (signup, login, logout, refreshToken, updateProfile) over  *)
(* the Prisma User and RefreshToken tables, with the JWT utilities and    *)
(* the global error handler.  Every `await` of a handler is a point where *)
(* other requests may run, so each handler is a sequence of atomic steps, *)
(* one per database round trip.                                           *)
(***************************************************************************)
EXTENDS Integers, FiniteSets, Sequences, TLC

\* ------------------------------------------------------------------ bounds
MaxTokens == 2   \* token pairs minted in one behaviour
MaxTicks == 1    \* clock ticks in one behaviour

\* --------------------------------------------------------- configuration
\* JWT_REFRESH_EXPIRES_IN ('7d') and JWT_ACCESS_EXPIRES_IN ('15m') in ticks
RefreshTTL == 1
\* a tick of the clock is a span longer than the life of a refresh token
TickLength == RefreshTTL + 1
AccessTTL == 1
JWT_ACCESS_SECRET == "access-secret"
JWT_REFRESH_SECRET == "refresh-secret"
NODE_ENV == "development"

Procs == {1, 2}                   \* the requests that can be in flight at the same time
Emails == {"a@x.com", "b@x.com"}
Usernames == {"u1"}
SignupPasswords == {"Secret123!"}
LoginPasswords == {"Secret123!", "wrong"}
Names == {"Ann"}
Phones == {"+15550100"}
Undefined == "undefined"          \* an optional string that is absent / null

VARIABLES
    users,          \* table users: set of User rows
    refreshTokens,  \* table refresh_tokens: set of RefreshToken rows
    now,            \* the clock (Date.now())
    issued,         \* number of token pairs minted so far (the uuidv4 source)
    pc,             \* pc[p]: the await the request p is suspended at
    op,             \* op[p]: the handler p runs
    arg,            \* arg[p]: the request body
    loc,            \* loc[p]: the handler's local variables
    result,         \* result[p]: what the handler returned or threw
    handedOut,      \* refresh tokens returned to clients so far
    exchanged,      \* history: [old, new] for every refreshToken(old) that returned new
    loggedOut,      \* history: issued tokens T for which a logout(T) has completed
    g,              \* g[p]: history of the request p runs
    config,         \* the configuration getConfig() loaded at start-up
    loginLimiter    \* loginLimiter's counter for the client address observed

vars == <<users, refreshTokens, now, issued, pc, op, arg, loc, result,
          handedOut, exchanged, loggedOut, g, config, loginLimiter>>

\* ------------------------------------------------------- config/index.ts
\* process.env: a variable that is not set is the empty string
Unset == ""

\* the environments the service may be started in
Envs ==
    [JWT_ACCESS_SECRET : {Unset, JWT_ACCESS_SECRET, JWT_REFRESH_SECRET},
     JWT_REFRESH_SECRET : {Unset, JWT_ACCESS_SECRET, JWT_REFRESH_SECRET}]

\* the environment of the deployment files: two different secrets
DefaultEnv ==
    [JWT_ACCESS_SECRET |-> JWT_ACCESS_SECRET, JWT_REFRESH_SECRET |-> JWT_REFRESH_SECRET]

\* getConfig throws when a required variable is missing
getConfigAccepts(env) == env.JWT_ACCESS_SECRET # Unset /\ env.JWT_REFRESH_SECRET # Unset

getConfig(env) ==
    [JWT_ACCESS_SECRET |-> env.JWT_ACCESS_SECRET,
     JWT_REFRESH_SECRET |-> env.JWT_REFRESH_SECRET]

\* ------------------------------------------------------------ utils/jwt.ts
\* A signed token is its claims together with the secret that signed it.
Sign(payload, tokenId, secret, exp) ==
    [sig |-> secret, userId |-> payload.userId, email |-> payload.email,
     username |-> payload.username, tokenId |-> tokenId, exp |-> exp]

\* a string that is not a JWT of this server ('invalid-token')
Garbage ==
    [sig |-> "none", userId |-> 0, email |-> Undefined, username |-> Undefined,
     tokenId |-> 0, exp |-> 0]

generateAccessToken(payload, t) == Sign(payload, 0, config.JWT_ACCESS_SECRET, t + AccessTTL)

\* variant: a refresh token without the tokenId
generateRefreshTokenWithoutId(payload, uuid, t) ==
    Sign(payload, 0, config.JWT_REFRESH_SECRET, t + RefreshTTL)

\* jwt.sign({ ...payload, tokenId: uuidv4() }, JWT_REFRESH_SECRET, { expiresIn })
generateRefreshToken(payload, uuid, t) ==
    Sign(payload, uuid, config.JWT_REFRESH_SECRET, t + RefreshTTL)

generateTokenPair(payload, uuid, t) ==
    [accessToken |-> generateAccessToken(payload, t),
     refreshToken |-> generateRefreshToken(payload, uuid, t)]

\* jwt.verify: the signature matches the secret and the token is not expired
JwtVerify(token, secret, t) == token.sig = secret /\ t < token.exp

verifyAccessToken(token, t) == JwtVerify(token, config.JWT_ACCESS_SECRET, t)

\* variant: a verifier that accepts every string
verifyRefreshTokenAcceptsAll(token, t) == TRUE

verifyRefreshToken(token, t) == JwtVerify(token, config.JWT_REFRESH_SECRET, t)

NoTokens == [accessToken |-> Garbage, refreshToken |-> Garbage]

\* --------------------------------------------------------- utils/errors.ts
NoError ==
    [name |-> "none", isOperational |-> FALSE, statusCode |-> 0, code |-> "",
     target |-> "", message |-> ""]

AppError(message, statusCode) ==
    [name |-> "Error", isOperational |-> TRUE, statusCode |-> statusCode, code |-> "",
     target |-> "", message |-> message]

UnauthorizedError(message) == AppError(message, 401)

ConflictError(message) == AppError(message, 409)

NotFoundError(message) == AppError(message, 404)

\* what the Prisma client throws: P2002 unique constraint failed on `target`,
\* P2025 record to update / delete not found
PrismaError(code, target) ==
    [name |-> "PrismaClientKnownRequestError", isOperational |-> FALSE, statusCode |-> 0,
     code |-> code, target |-> target, message |-> "prisma"]

\* a failure of the database itself (connection lost, timeout)
StoreFailure ==
    [name |-> "PrismaClientUnknownRequestError", isOperational |-> FALSE, statusCode |-> 0,
     code |-> "", target |-> "", message |-> "prisma"]

\* ------------------------------------------------------ middleware/auth.ts
\* variant: an error handler without the Prisma branch
errorHandlerWithoutPrisma(error) ==
    IF error.isOperational
    THEN [status |-> error.statusCode, message |-> error.message]
    ELSE [status |-> 500, message |-> "Internal server error"]

errorHandler(error) ==
    IF error.isOperational
    THEN [status |-> error.statusCode, message |-> error.message]
    ELSE IF error.name = "PrismaClientKnownRequestError"
    THEN IF error.code = "P2002"
         THEN [status |-> 409,
               message |-> IF error.target = "email"
                           THEN "Email address is already registered"
                           ELSE IF error.target = "username"
                           THEN "Username is already taken"
                           ELSE "Resource already exists"]
         ELSE IF error.code = "P2025"
         THEN [status |-> 404, message |-> "Resource not found"]
         ELSE [status |-> 500, message |-> "Internal server error"]
    ELSE [status |-> 500,
          message |-> IF NODE_ENV = "production" THEN "Something went wrong"
                      ELSE "Internal server error"]

\* the Authorization header of a request: absent, or "<scheme> <token>" where
\* either part may be missing
NoHeader == [present |-> FALSE, scheme |-> Undefined, token |-> Garbage]

Header(scheme, token) == [present |-> TRUE, scheme |-> scheme, token |-> token]

\* authHeader.split(' ')[1] is undefined or empty
NoBearerToken ==
    [sig |-> "none", userId |-> 0, email |-> Undefined, username |-> Undefined,
     tokenId |-> 0, exp |-> -1]

\* variant: a middleware that does not verify the token
authenticateWithoutVerify(header, t) ==
    IF ~header.present THEN UnauthorizedError("Authorization header is required")
    ELSE IF header.token = NoBearerToken \/ header.scheme # "Bearer"
    THEN UnauthorizedError("Bearer token is required")
    ELSE NoError

\* variant: a middleware that also wants a live session of the user in the store
authenticateWithSession(header, t) ==
    IF ~header.present THEN UnauthorizedError("Authorization header is required")
    ELSE IF header.token = NoBearerToken \/ header.scheme # "Bearer"
    THEN UnauthorizedError("Bearer token is required")
    ELSE IF ~verifyAccessToken(header.token, t)
    THEN UnauthorizedError("Invalid access token")
    ELSE IF ~\E r \in refreshTokens : r.userId = header.token.userId /\ ~r.isRevoked
    THEN UnauthorizedError("Invalid access token")
    ELSE NoError

\* authenticate: the error it answers 401 with, or NoError when it calls next()
authenticate(header, t) ==
    IF ~header.present THEN UnauthorizedError("Authorization header is required")
    ELSE IF header.token = NoBearerToken \/ header.scheme # "Bearer"
    THEN UnauthorizedError("Bearer token is required")
    ELSE IF ~verifyAccessToken(header.token, t)
    THEN UnauthorizedError("Invalid access token")
    ELSE NoError

\* ------------------------------------------------------- the User table
NoUser ==
    [id |-> 0, email |-> Undefined, username |-> Undefined, name |-> Undefined,
     phone |-> Undefined, password |-> [alg |-> "none", of |-> Undefined],
     isActive |-> FALSE, createdAt |-> 0, updatedAt |-> 0]

\* bcrypt.hash / bcrypt.compare
Hash(password) == [alg |-> "bcrypt", of |-> password]

\* variant: a comparison that accepts every password
CompareAcceptsAll(password, digest) == TRUE

Compare(password, digest) == digest = Hash(password)

\* prisma findUnique: the row of the set that matches, or none
FindUnique(matching, none) == IF matching = {} THEN none ELSE CHOOSE r \in matching : TRUE

findById(id) == FindUnique({u \in users : u.id = id}, NoUser)

findByEmail(email) == FindUnique({u \in users : u.email = email}, NoUser)

\* variant: an existence check that never finds the email
emailExistsNever(email) == FALSE

emailExists(email) == \E u \in users : u.email = email

usernameExists(username) == \E u \in users : u.username = username

\* variant: a schema without unique indexes
NoUniqueIndexes(id, email, username) == {}

\* the unique indexes a new or changed row would violate (schema.prisma @unique)
UniqueViolations(id, email, username) ==
    {t \in {"email", "username"} :
        \/ t = "email" /\ \E u \in users : u.id # id /\ u.email = email
        \/ t = "username" /\ username # Undefined
                          /\ \E u \in users : u.id # id /\ u.username = username}

\* ------------------------------------------------ the RefreshToken table
NoRecord == [token |-> Garbage, userId |-> 0, expiresAt |-> 0, isRevoked |-> FALSE]

findByToken(token) == FindUnique({r \in refreshTokens : r.token = token}, NoRecord)

TokenStored(token) == \E r \in refreshTokens : r.token = token

\* variant: an update that does not set the flag
revokeTokenKeepsFlag(token) == refreshTokens

\* variant: an update that flips the flag
revokeTokenFlipsFlag(token) ==
    {IF r.token = token THEN [r EXCEPT !.isRevoked = ~@] ELSE r : r \in refreshTokens}

\* prisma.refreshToken.update({ where: { token }, data: { isRevoked: true } })
revokeToken(token) ==
    {IF r.token = token THEN [r EXCEPT !.isRevoked = TRUE] ELSE r : r \in refreshTokens}

\* variant: a delete that removes nothing
deleteTokenKeepsRow(token) == refreshTokens

\* prisma.refreshToken.delete({ where: { token } })
deleteToken(token) == {r \in refreshTokens : r.token # token}

\* variant: a sweep that removes every row
cleanupExpiredTokensAll(t) == {}

\* RefreshTokenRepository.cleanupExpiredTokens: deleteMany where
\* expiresAt < new Date() OR isRevoked; the rows that remain
cleanupExpiredTokens(t) == {r \in refreshTokens : ~(r.expiresAt < t \/ r.isRevoked)}

\* ------------------------------------------------------- request state
NoArg ==
    [email |-> Undefined, password |-> Undefined, username |-> Undefined,
     name |-> Undefined, phone |-> Undefined, token |-> Garbage, userId |-> 0,
     authorization |-> NoHeader]

NoLoc == [user |-> NoUser, payload |-> Garbage, newTokens |-> NoTokens]

\* variant: a profile that is the whole row
mapUserToProfileWholeRow(user) == user

\* AuthService.mapUserToProfile: the fields of the row that are returned
mapUserToProfile(user) ==
    [id |-> user.id, email |-> user.email, username |-> user.username,
     name |-> user.name, phone |-> user.phone, isActive |-> user.isActive,
     createdAt |-> user.createdAt, updatedAt |-> user.updatedAt]

\* a response without a profile
NoProfile ==
    [id |-> 0, email |-> Undefined, username |-> Undefined, name |-> Undefined,
     phone |-> Undefined, isActive |-> FALSE, createdAt |-> 0, updatedAt |-> 0]

NoResult == [ok |-> FALSE, error |-> NoError, user |-> NoProfile, tokens |-> NoTokens]

NoHistory ==
    [afterRotation |-> FALSE, afterLogout |-> FALSE, inactive |-> FALSE,
     revoked |-> FALSE, stored |-> FALSE, lookedUp |-> FALSE,
     wonRace |-> FALSE, lostRace |-> FALSE,
     emailTaken |-> FALSE, usernameTaken |-> FALSE,
     unknownEmail |-> FALSE, wrongPassword |-> FALSE, deactivated |-> FALSE,
     unverifiable |-> FALSE, expired |-> FALSE, lookup |-> "none"]

\* what the controller or the error handler answers for a finished request
Response(p) ==
    IF result[p].ok
    THEN [status |-> IF op[p] = "signup" THEN 201 ELSE 200, message |-> "success"]
    ELSE errorHandler(result[p].error)

\* the tables are empty and no request is in flight
InitTables ==
    /\ loginLimiter = [hits |-> 0, failed |-> 0]
    /\ users = {}
    /\ refreshTokens = {}
    /\ now = 0
    /\ issued = 0
    /\ pc = [p \in Procs |-> "idle"]
    /\ op = [p \in Procs |-> "none"]
    /\ arg = [p \in Procs |-> NoArg]
    /\ loc = [p \in Procs |-> NoLoc]
    /\ result = [p \in Procs |-> NoResult]
    /\ handedOut = {}
    /\ exchanged = {}
    /\ loggedOut = {}
    /\ g = [p \in Procs |-> NoHistory]

Init == InitTables /\ config = getConfig(DefaultEnv)

\* A response is on the wire until the next event: f with the slots emptied
\* whose response has been sent.
Sent(f, none) == [q \in Procs |-> IF pc[q] = "done" THEN none ELSE f[q]]

\* the next request is served by the first slot that is not busy
Free(p) ==
    /\ pc[p] \in {"idle", "done"}
    /\ \A q \in Procs : q < p => pc[q] \notin {"idle", "done"}

\* a request arrives and is dispatched to its handler
Start(p, o, a, h) ==
    /\ Free(p)
    /\ op' = [Sent(op, "none") EXCEPT ![p] = o]
    /\ arg' = [Sent(arg, NoArg) EXCEPT ![p] = a]
    /\ g' = [Sent(g, NoHistory) EXCEPT ![p] = h]

\* a suspended handler is resumed at label
Resume(p, o, label) ==
    /\ pc[p] = label /\ op[p] = o
    /\ op' = Sent(op, "none")
    /\ arg' = Sent(arg, NoArg)

\* the handler moves to label (its next await, or "done") with locals and outcome
Respond(p, label, locals, outcome) ==
    /\ pc' = [Sent(pc, "idle") EXCEPT ![p] = label]
    /\ loc' = [loc EXCEPT ![p] = locals]
    /\ result' = [Sent(result, NoResult) EXCEPT ![p] = outcome]
    /\ UNCHANGED config

\* skipSuccessfulRequests: when a response with a status below 400 has been
\* sent, the store takes the request's hit back (never below zero)
skipSuccessfulRequests(hits) == IF hits > 0 THEN hits - 1 ELSE 0

Move(p, label, locals, outcome) ==
    /\ Respond(p, label, locals, outcome)
    /\ loginLimiter' =
          IF op[p] = "login" /\ pc[p] = "store" /\ label = "done" /\ outcome.ok
          THEN [loginLimiter EXCEPT !.hits = skipSuccessfulRequests(@)]
          ELSE loginLimiter

\* the handler throws
Throw(p, error) == Move(p, "done", NoLoc, [NoResult EXCEPT !.error = error])

\* the handler returns
Finish(p, user, tokens) ==
    Move(p, "done", NoLoc, [ok |-> TRUE, error |-> NoError, user |-> user, tokens |-> tokens])

\* the handler goes on to its next await, with its local variables
Goto(p, label, locals) == Move(p, label, locals, NoResult)

\* ------------------------------------------------------ AuthService.signup
\* the request arrives; userRepository.emailExists
SignupEmailExists(p, emails, usernames) ==
    \E e \in emails, pw \in SignupPasswords, un \in usernames \cup {Undefined} :
        /\ Start(p, "signup", [NoArg EXCEPT !.email = e, !.password = pw, !.username = un],
                 [NoHistory EXCEPT !.emailTaken = \E u \in users : u.email = e])
        /\ IF emailExists(e)
           THEN Throw(p, ConflictError("Email address is already registered"))
           ELSE Goto(p, IF un # Undefined THEN "usernameExists" ELSE "create", NoLoc)
        /\ UNCHANGED <<users, refreshTokens, now, issued, handedOut, exchanged, loggedOut>>

SignupUsernameExists(p) ==
    /\ Resume(p, "signup", "usernameExists")
    /\ g' = [Sent(g, NoHistory) EXCEPT
                ![p].usernameTaken = \E u \in users : u.username = arg[p].username]
    /\ IF usernameExists(arg[p].username)
       THEN Throw(p, ConflictError("Username is already taken"))
       ELSE Goto(p, "create", NoLoc)
    /\ UNCHANGED <<users, refreshTokens, now, issued, handedOut, exchanged, loggedOut>>

\* @default(cuid()): an id no row has or ever had (every created user is the
\* first holder of the next token pair)
NewId == issued + 1

\* prisma.user.create: the row a successful insert adds
NewUser(id, a) ==
    [id |-> id, email |-> a.email, username |-> a.username, name |-> a.name,
     phone |-> a.phone, password |-> Hash(a.password), isActive |-> TRUE,
     createdAt |-> now, updatedAt |-> now]

\* UserRepository.create: the unique indexes decide, atomically with the insert
UserCreateViolations(a) == UniqueViolations(0, a.email, a.username)

\* variant: a payload that leaves the username out
PayloadOfWithoutUsername(user) ==
    [userId |-> user.id, email |-> user.email, username |-> Undefined]

\* the identity payload the handlers sign
PayloadOf(user) == [userId |-> user.id, email |-> user.email, username |-> user.username]

\* generateTokenPair, then the synchronous head of storeRefreshToken:
\* verifyRefreshToken(token) of the token just minted
MintAndStore(p, user, tokens) ==
    IF verifyRefreshToken(tokens.refreshToken, now)
    THEN Goto(p, "store", [NoLoc EXCEPT !.user = user, !.newTokens = tokens])
    ELSE Throw(p, UnauthorizedError("Invalid refresh token"))

\* two registrations that cannot both be stored
Clash(a, b) == a.email = b.email \/ (a.username # Undefined /\ a.username = b.username)

\* bcrypt.hash, userRepository.create, generateTokenPair, storeRefreshToken's head
SignupCreate(p, cap) ==
    /\ Resume(p, "signup", "create")
    /\ IF UserCreateViolations(arg[p]) # {}
       THEN /\ \E t \in UserCreateViolations(arg[p]) : Throw(p, PrismaError("P2002", t))
            /\ g' = Sent(g, NoHistory)
            /\ UNCHANGED <<users, issued>>
       ELSE LET user == NewUser(NewId, arg[p])
                losers == {q \in Procs \ {p} : /\ pc[q] = "create" /\ op[q] = "signup"
                                               /\ Clash(arg[p], arg[q])}
            IN  /\ issued < cap
                /\ issued' = issued + 1
                /\ users' = users \cup {user}
                /\ g' = [q \in Procs |->
                            IF q \in losers THEN [g[q] EXCEPT !.lostRace = TRUE]
                            ELSE IF q = p THEN [g[q] EXCEPT !.wonRace = (losers # {})]
                            ELSE Sent(g, NoHistory)[q]]
                /\ MintAndStore(p, user, generateTokenPair(PayloadOf(user), issued + 1, now))
    /\ UNCHANGED <<refreshTokens, now, handedOut, exchanged, loggedOut>>

\* ------------------------------------------- AuthService.storeRefreshToken
\* refreshTokenRepository.create, then the handler's return statement
\* RefreshTokenRepository.create: the unique index on token and the foreign
\* key on userId decide, atomically with the insert
createTokenError(token, userId) ==
    IF TokenStored(token) THEN PrismaError("P2002", "token")
    ELSE IF \A u \in users : u.id # userId THEN PrismaError("P2003", "userId")
    ELSE NoError

\* variant: a store that ends the user's other sessions
StoreRefreshTokenSingleSession(p) ==
    /\ Resume(p, op[p], "store")
    /\ LET token == loc[p].newTokens.refreshToken
       IN  IF createTokenError(token, loc[p].user.id) # NoError
           THEN /\ Throw(p, createTokenError(token, loc[p].user.id))
                /\ g' = Sent(g, NoHistory)
                /\ UNCHANGED <<refreshTokens, handedOut, exchanged>>
           ELSE /\ refreshTokens' = {r \in refreshTokens : r.userId # loc[p].user.id} \cup
                       {[token |-> token, userId |-> loc[p].user.id,
                         expiresAt |-> token.exp, isRevoked |-> FALSE]}
                /\ Finish(p, IF op[p] = "refresh" THEN NoProfile
                              ELSE mapUserToProfile(loc[p].user), loc[p].newTokens)
                /\ handedOut' = handedOut \cup {token}
                /\ exchanged' = IF op[p] = "refresh"
                                THEN exchanged \cup {[old |-> arg[p].token, new |-> token]}
                                ELSE exchanged
                /\ g' = [Sent(g, NoHistory) EXCEPT ![p].stored = TRUE]
    /\ UNCHANGED <<users, now, issued, loggedOut>>

StoreRefreshToken(p) ==
    /\ Resume(p, op[p], "store")
    /\ LET token == loc[p].newTokens.refreshToken
       IN  IF createTokenError(token, loc[p].user.id) # NoError
           THEN /\ Throw(p, createTokenError(token, loc[p].user.id))
                /\ g' = Sent(g, NoHistory)
                /\ UNCHANGED <<refreshTokens, handedOut, exchanged>>
           ELSE /\ refreshTokens' = refreshTokens \cup
                       {[token |-> token, userId |-> loc[p].user.id,
                         expiresAt |-> token.exp, isRevoked |-> FALSE]}
                /\ Finish(p, IF op[p] = "refresh" THEN NoProfile
                              ELSE mapUserToProfile(loc[p].user), loc[p].newTokens)
                /\ handedOut' = handedOut \cup {token}
                /\ exchanged' = IF op[p] = "refresh"
                                THEN exchanged \cup {[old |-> arg[p].token, new |-> token]}
                                ELSE exchanged
                /\ g' = [Sent(g, NoHistory) EXCEPT ![p].stored = TRUE]
    /\ UNCHANGED <<users, now, issued, loggedOut>>

\* variant: the failure of the insert is swallowed and the handler returns
StoreRefreshTokenFailsQuietly(p) ==
    /\ Resume(p, op[p], "store")
    /\ g' = Sent(g, NoHistory)
    /\ Finish(p, IF op[p] = "refresh" THEN NoProfile ELSE mapUserToProfile(loc[p].user),
              loc[p].newTokens)
    /\ UNCHANGED <<users, refreshTokens, now, issued, handedOut, exchanged, loggedOut>>

\* the database fails the insert of the refresh-token row
StoreRefreshTokenFails(p) ==
    /\ Resume(p, op[p], "store")
    /\ g' = Sent(g, NoHistory)
    /\ Throw(p, StoreFailure)
    /\ UNCHANGED <<users, refreshTokens, now, issued, handedOut, exchanged, loggedOut>>

\* ------------------------------------------------------- AuthService.login
\* the request arrives; userRepository.findByEmail, the checks, bcrypt.compare,
\* generateTokenPair, storeRefreshToken's head
\* variant: a login that does not look at isActive
DeactivatedNever(user) == FALSE

\* if (!user.isActive)
Deactivated(user) == ~user.isActive

\* variant: a login that tells an unknown email from a wrong password
loginErrorNamesTheCause(user, password) ==
    IF user = NoUser THEN UnauthorizedError("User not found")
    ELSE IF Deactivated(user) THEN UnauthorizedError("Account is deactivated")
    ELSE IF ~Compare(password, user.password) THEN UnauthorizedError("Invalid email or password")
    ELSE NoError

\* the three checks of login on the row findByEmail returned
loginError(user, password) ==
    IF user = NoUser THEN UnauthorizedError("Invalid email or password")
    ELSE IF Deactivated(user) THEN UnauthorizedError("Account is deactivated")
    ELSE IF ~Compare(password, user.password) THEN UnauthorizedError("Invalid email or password")
    ELSE NoError

LoginFindByEmail(p, emails, cap) ==
    \E e \in emails, pw \in LoginPasswords :
        /\ Start(p, "login", [NoArg EXCEPT !.email = e, !.password = pw],
                 [NoHistory EXCEPT
                     !.unknownEmail = ~\E u \in users : u.email = e,
                     !.wrongPassword = \E u \in users : /\ u.email = e /\ u.isActive
                                                         /\ u.password # Hash(pw),
                     !.deactivated = \E u \in users : u.email = e /\ ~u.isActive])
        /\ LET user == findByEmail(e)
           IN  IF loginError(user, pw) # NoError
               THEN /\ Throw(p, loginError(user, pw))
                    /\ UNCHANGED issued
               ELSE /\ issued < cap
                    /\ issued' = issued + 1
                    /\ MintAndStore(p, user,
                                    generateTokenPair(PayloadOf(user), issued + 1, now))
        /\ UNCHANGED <<users, refreshTokens, now, handedOut, exchanged, loggedOut>>

\* --------------------------------------------- middleware/rateLimiter.ts
\* loginLimiter: max
LoginMax == 5

\* the 429 of loginLimiter's handler
TooManyLogins ==
    AppError("Too many login attempts, please try again after 15 minutes.", 429)

\* skip: () => process.env.NODE_ENV === 'test'
loginLimiterSkips == NODE_ENV = "test"

\* what POST /login answers at once for the row findByEmail returned, after
\* the limiter counted the request as hit number hits
limitedLoginError(hits, user, password, tokens) ==
    IF ~loginLimiterSkips /\ hits > LoginMax THEN TooManyLogins
    ELSE IF loginError(user, password) # NoError THEN loginError(user, password)
    ELSE IF ~verifyRefreshToken(tokens.refreshToken, now)
    THEN UnauthorizedError("Invalid refresh token")
    ELSE NoError

\* POST /login from the client address observed: loginLimiter counts the
\* request, answers 429 above max, and otherwise passes it on to login
LimitedLogin(p, emails, cap) ==
    \E e \in emails, pw \in LoginPasswords :
        /\ loginLimiter.hits < LoginMax + MaxTokens
        /\ Start(p, "login", [NoArg EXCEPT !.email = e, !.password = pw], NoHistory)
        /\ LET hits == loginLimiter.hits + 1
               user == findByEmail(e)
               tokens == generateTokenPair(PayloadOf(user), issued + 1, now)
               error == limitedLoginError(hits, user, pw, tokens)
           IN  IF error # NoError
               THEN /\ Respond(p, "done", NoLoc, [NoResult EXCEPT !.error = error])
                    /\ loginLimiter' = [hits |-> hits, failed |-> loginLimiter.failed + 1]
                    /\ UNCHANGED issued
               ELSE /\ issued < cap
                    /\ issued' = issued + 1
                    /\ Respond(p, "store", [NoLoc EXCEPT !.user = user, !.newTokens = tokens],
                               NoResult)
                    /\ loginLimiter' = [loginLimiter EXCEPT !.hits = hits]
        /\ UNCHANGED <<users, refreshTokens, now, handedOut, exchanged, loggedOut>>

\* windowMs has passed since the first hit: the store forgets the address
WindowElapses ==
    /\ loginLimiter.hits > 0
    /\ loginLimiter' = [hits |-> 0, failed |-> 0]
    /\ pc' = Sent(pc, "idle")
    /\ op' = Sent(op, "none")
    /\ arg' = Sent(arg, NoArg)
    /\ result' = Sent(result, NoResult)
    /\ g' = Sent(g, NoHistory)
    /\ UNCHANGED <<users, refreshTokens, now, issued, handedOut, exchanged, loggedOut,
                   loc, config>>

\* ---------------------------------------------------- the protected routes
\* the access token minted together with a refresh token
accessTokenOf(token) ==
    generateAccessToken([userId |-> token.userId, email |-> token.email,
                         username |-> token.username], token.exp - RefreshTTL)

\* the access tokens clients were given
AccessTokens == {accessTokenOf(t) : t \in handedOut}

\* the Authorization headers clients send: none, or a scheme with an access
\* token they were given, a refresh token they were given, a string that is
\* no token, or nothing
Headers ==
    {NoHeader} \cup
    {Header(scheme, token) :
        scheme \in {"Bearer", "Basic"},
        token \in AccessTokens \cup handedOut
                      \cup {Garbage, NoBearerToken}}

\* the requests authenticate passes on, with req.user set from the payload
Authenticated == {header \in Headers : authenticate(header, now) = NoError}

\* a request to a protected route that authenticate answers itself
AuthenticateRejects(p) ==
    \E o \in {"logout", "getProfile", "updateProfile"}, header \in Headers :
        /\ authenticate(header, now) # NoError
        /\ Start(p, o, [NoArg EXCEPT !.authorization = header], NoHistory)
        /\ Throw(p, authenticate(header, now))
        /\ UNCHANGED <<users, refreshTokens, now, issued, handedOut, exchanged, loggedOut>>

\* ------------------------------------------------------ AuthService.logout
\* the strings a client can present: tokens it was given, or anything else
Presentable == handedOut \cup {Garbage}

\* RefreshTokenRepository.deleteToken: prisma delete throws P2025 when no row matches
deleteTokenError(token) == IF TokenStored(token) THEN NoError ELSE PrismaError("P2025", "")

\* variant: a logout without the try / catch
logoutRethrows(error) == error

\* logout's try / catch: whatever deleteToken throws is dropped
logoutCatch(error) == NoError

\* the request arrives; refreshTokenRepository.deleteToken inside try / catch
LogoutDeleteToken(p) ==
    \E header \in Authenticated, t \in Presentable :
        /\ Start(p, "logout", [NoArg EXCEPT !.token = t, !.authorization = header],
                 [NoHistory EXCEPT !.afterLogout = t \in loggedOut])
        /\ refreshTokens' = deleteToken(t)
        /\ LET error == logoutCatch(deleteTokenError(t))
           IN  IF error = NoError THEN Finish(p, NoProfile, NoTokens) ELSE Throw(p, error)
        /\ loggedOut' = IF t \in handedOut THEN loggedOut \cup {t} ELSE loggedOut
        /\ UNCHANGED <<users, now, issued, handedOut, exchanged>>

\* ------------------------------------------------ AuthService.refreshToken
RefreshedBefore(token) == \E x \in exchanged : x.old = token

\* the request arrives; the synchronous head: verifyRefreshToken(refreshToken)
RefreshVerify(p, tokens) ==
    \E t \in tokens :
        /\ Start(p, "refresh", [NoArg EXCEPT !.token = t],
                 [NoHistory EXCEPT !.afterRotation = RefreshedBefore(t),
                                   !.afterLogout = t \in loggedOut,
                                   !.inactive = ~findById(t.userId).isActive,
                                   !.unverifiable =
                                       ~(t.sig = config.JWT_REFRESH_SECRET /\ now < t.exp),
                                   !.expired =
                                       t.sig = config.JWT_REFRESH_SECRET /\ t.exp <= now])
        /\ IF verifyRefreshToken(t, now)
           THEN Goto(p, "findByToken", [NoLoc EXCEPT !.payload = t])
           ELSE Throw(p, UnauthorizedError("Invalid refresh token"))
        /\ UNCHANGED <<users, refreshTokens, now, issued, handedOut, exchanged, loggedOut>>

\* variant: a lookup check that forgets the revoked flag
InvalidStoredTokenIgnoresRevoked(storedToken) == storedToken = NoRecord

\* if (!storedToken || storedToken.isRevoked)
InvalidStoredToken(storedToken) == storedToken = NoRecord \/ storedToken.isRevoked

\* variant: a lookup that tells a revoked record from a missing one
storedTokenErrorTellsRevoked(storedToken) ==
    IF storedToken = NoRecord THEN UnauthorizedError("Invalid refresh token")
    ELSE IF storedToken.isRevoked THEN UnauthorizedError("Refresh token has been revoked")
    ELSE NoError

\* what the check on the row findByToken returned throws
storedTokenError(storedToken) ==
    IF InvalidStoredToken(storedToken) THEN UnauthorizedError("Invalid refresh token")
    ELSE NoError

\* history: what the store held for the token when it was looked up
LookedUpAs(token) ==
    IF \A r \in refreshTokens : r.token # token THEN "absent"
    ELSE IF \E r \in refreshTokens : r.token = token /\ r.isRevoked THEN "revoked"
    ELSE "present"

\* refreshTokenRepository.findByToken and the two checks on the stored row
RefreshFindByToken(p) ==
    /\ Resume(p, "refresh", "findByToken")
    /\ LET storedToken == findByToken(arg[p].token)
           seen == [Sent(g, NoHistory) EXCEPT ![p].lookup = LookedUpAs(arg[p].token)]
       IN  IF storedTokenError(storedToken) # NoError
           THEN /\ Throw(p, storedTokenError(storedToken))
                /\ g' = seen
           ELSE IF storedToken.expiresAt < now
           THEN /\ Goto(p, "deleteExpired", loc[p])
                /\ g' = seen
           ELSE /\ Goto(p, "findById", loc[p])
                /\ g' = [seen EXCEPT ![p].lookedUp = TRUE]
    /\ UNCHANGED <<users, refreshTokens, now, issued, handedOut, exchanged, loggedOut>>

\* the expired branch: deleteToken, then throw
RefreshDeleteExpired(p) ==
    /\ Resume(p, "refresh", "deleteExpired")
    /\ g' = Sent(g, NoHistory)
    /\ refreshTokens' = deleteToken(arg[p].token)
    /\ IF deleteTokenError(arg[p].token) # NoError
       THEN Throw(p, deleteTokenError(arg[p].token))
       ELSE Throw(p, UnauthorizedError("Refresh token has expired"))
    /\ UNCHANGED <<users, now, issued, handedOut, exchanged, loggedOut>>

\* variant: a user check that forgets the isActive flag
UserMissingOnly(user) == user = NoUser

\* if (!user || !user.isActive)
UserMissingOrInactive(user) == user = NoUser \/ ~user.isActive

\* userRepository.findById(payload.userId), the check, generateTokenPair
RefreshFindById(p, cap) ==
    /\ Resume(p, "refresh", "findById")
    /\ g' = Sent(g, NoHistory)
    /\ LET user == findById(loc[p].payload.userId)
       IN  IF UserMissingOrInactive(user)
           THEN /\ Throw(p, UnauthorizedError("User not found or inactive"))
                /\ UNCHANGED issued
           ELSE /\ issued < cap
                /\ issued' = issued + 1
                /\ Goto(p, "revokeToken",
                        [loc[p] EXCEPT !.user = user,
                                       !.newTokens =
                                           generateTokenPair(PayloadOf(user), issued + 1, now)])
    /\ UNCHANGED <<users, refreshTokens, now, handedOut, exchanged, loggedOut>>

\* RefreshTokenRepository.revokeToken: prisma update throws P2025 when no row matches
revokeTokenError(token) == IF TokenStored(token) THEN NoError ELSE PrismaError("P2025", "")

\* refreshTokenRepository.revokeToken, then storeRefreshToken's head
RefreshRevokeToken(p) ==
    /\ Resume(p, "refresh", "revokeToken")
    /\ refreshTokens' = revokeToken(arg[p].token)
    /\ IF revokeTokenError(arg[p].token) # NoError
       THEN /\ Throw(p, revokeTokenError(arg[p].token))
            /\ g' = Sent(g, NoHistory)
       ELSE /\ g' = [Sent(g, NoHistory) EXCEPT ![p].revoked = TRUE]
            /\ MintAndStore(p, loc[p].user, loc[p].newTokens)
    /\ UNCHANGED <<users, now, issued, handedOut, exchanged, loggedOut>>

\* -------------------------------------------------- AuthService.getProfile
\* the request arrives (the route is behind authenticate: userId is the id of a
\* registered user); userRepository.findById and mapUserToProfile
GetProfile(p) ==
    \E header \in Authenticated :
        /\ Start(p, "getProfile",
                 [NoArg EXCEPT !.userId = header.token.userId, !.authorization = header],
                 NoHistory)
        /\ LET user == findById(header.token.userId)
           IN  IF user = NoUser
               THEN Throw(p, NotFoundError("User not found"))
               ELSE Finish(p, mapUserToProfile(user), NoTokens)
        /\ UNCHANGED <<users, refreshTokens, now, issued, handedOut, exchanged, loggedOut>>

\* ----------------------------------------------- AuthService.updateProfile
\* UpdateUserData: the request bodies updateProfile is called with
NoPartial == [username |-> Undefined, name |-> Undefined, phone |-> Undefined]

UsernamePartials == {[NoPartial EXCEPT !.username = un] : un \in Usernames \cup {Undefined}}

FieldPartials ==
    {[NoPartial EXCEPT !.username = un] : un \in Usernames}
        \cup {[NoPartial EXCEPT !.name = nm] : nm \in Names}
        \cup {[NoPartial EXCEPT !.phone = ph] : ph \in Phones}

\* the request arrives (the route is behind authenticate: userId is the id of a
\* registered user); userRepository.findById
UpdateFindById(p, partials) ==
    \E header \in Authenticated, data \in partials :
        /\ Start(p, "updateProfile",
                 [NoArg EXCEPT !.userId = header.token.userId, !.authorization = header,
                               !.username = data.username,
                               !.name = data.name, !.phone = data.phone],
                 NoHistory)
        /\ LET existingUser == findById(header.token.userId)
           IN  IF existingUser = NoUser
               THEN Throw(p, NotFoundError("User not found"))
               ELSE Goto(p, IF data.username # Undefined /\ data.username # existingUser.username
                            THEN "usernameExists" ELSE "updateById",
                         [NoLoc EXCEPT !.user = existingUser])
        /\ UNCHANGED <<users, refreshTokens, now, issued, handedOut, exchanged, loggedOut>>

UpdateUsernameExists(p) ==
    /\ Resume(p, "updateProfile", "usernameExists")
    /\ g' = Sent(g, NoHistory)
    /\ IF usernameExists(arg[p].username)
       THEN Throw(p, ConflictError("Username is already taken"))
       ELSE Goto(p, "updateById", loc[p])
    /\ UNCHANGED <<users, refreshTokens, now, issued, handedOut, exchanged, loggedOut>>

\* UserRepository.updateById: the unique indexes decide, atomically with the update
UserUpdateViolations(id, data) == UniqueViolations(id, findById(id).email, data.username)

\* variant: an update that writes every field of data, present or not
UpdatedUserWholeRow(user, data) ==
    [user EXCEPT !.username = data.username, !.name = data.name,
                 !.phone = data.phone, !.updatedAt = now]

\* prisma.user.update: fields that are undefined in data are left alone
UpdatedUser(user, data) ==
    [user EXCEPT !.username = IF data.username # Undefined THEN data.username ELSE @,
                 !.name = IF data.name # Undefined THEN data.name ELSE @,
                 !.phone = IF data.phone # Undefined THEN data.phone ELSE @,
                 !.updatedAt = now]

UpdateById(p) ==
    /\ Resume(p, "updateProfile", "updateById")
    /\ g' = Sent(g, NoHistory)
    /\ LET row == findById(arg[p].userId)
       IN  IF row = NoUser
           THEN Throw(p, PrismaError("P2025", "")) /\ UNCHANGED users
           ELSE IF UserUpdateViolations(arg[p].userId, arg[p]) # {}
           THEN /\ \E t \in UserUpdateViolations(arg[p].userId, arg[p]) :
                        Throw(p, PrismaError("P2002", t))
                /\ UNCHANGED users
           ELSE /\ users' = (users \ {row}) \cup {UpdatedUser(row, arg[p])}
                /\ Finish(p, mapUserToProfile(UpdatedUser(row, arg[p])), NoTokens)
    /\ UNCHANGED <<refreshTokens, now, issued, handedOut, exchanged, loggedOut>>

\* ------------------------------------------------------------ environment
\* something happens outside the handlers: the responses on the wire are sent
Outside ==
    /\ pc' = Sent(pc, "idle")
    /\ op' = Sent(op, "none")
    /\ arg' = Sent(arg, NoArg)
    /\ result' = Sent(result, NoResult)
    /\ UNCHANGED <<loc, config, loginLimiter>>

\* the administrative path: prisma.user.update({ data: { isActive } })
SetActive(id, active) ==
    /\ \E u \in users :
        /\ u.id = id /\ u.isActive # active
        /\ users' = (users \ {u}) \cup {[u EXCEPT !.isActive = active]}
    /\ Outside
    /\ g' = [p \in Procs |->
                IF active /\ op[p] = "refresh" /\ arg[p].token.userId = id
                THEN [Sent(g, NoHistory)[p] EXCEPT !.inactive = FALSE]
                ELSE Sent(g, NoHistory)[p]]
    /\ UNCHANGED <<refreshTokens, now, issued, handedOut, exchanged, loggedOut>>

\* UserRepository.deleteById: prisma.user.delete, and the schema's
\* onDelete: Cascade on the user's refresh tokens
DeleteById(id) ==
    /\ \E u \in users : u.id = id /\ users' = users \ {u}
    /\ refreshTokens' = {r \in refreshTokens : r.userId # id}
    /\ Outside
    /\ g' = Sent(g, NoHistory)
    /\ UNCHANGED <<now, issued, handedOut, exchanged, loggedOut>>

\* the administrative sweep: RefreshTokenRepository.cleanupExpiredTokens
CleanupExpiredTokens ==
    /\ refreshTokens' = cleanupExpiredTokens(now)
    /\ Outside
    /\ g' = Sent(g, NoHistory)
    /\ UNCHANGED <<users, now, issued, handedOut, exchanged, loggedOut>>

\* Time passes; it is measured from the first token minted.  A request never
\* takes as long as a refresh token lives: the token minted by a refreshToken
\* call is still fresh when the call stores it.
Tick ==
    /\ issued > 0
    /\ now < MaxTicks * TickLength
    /\ \A p \in Procs : pc[p] # "revokeToken"
    /\ now' = now + TickLength
    /\ Outside
    /\ g' = Sent(g, NoHistory)
    /\ UNCHANGED <<users, refreshTokens, issued, handedOut, exchanged, loggedOut>>

\* ---------------------------------------------------------- specifications
\* The session life cycle: one account, its logins, refreshes and logouts and
\* its deactivation, within the lifetime of its tokens.
SessionEmails == {"a@x.com"}

SessionStep(p) ==
    \/ SignupEmailExists(p, SessionEmails, {})
    \/ SignupCreate(p, MaxTokens)
    \/ StoreRefreshToken(p)
    \/ LoginFindByEmail(p, SessionEmails, MaxTokens)
    \/ LogoutDeleteToken(p)
    \/ RefreshVerify(p, Presentable)
    \/ RefreshFindByToken(p)
    \/ RefreshFindById(p, MaxTokens)
    \/ RefreshRevokeToken(p)

Next ==
    \/ \E p \in Procs : SessionStep(p)
    \/ \E u \in users : \E active \in BOOLEAN : SetActive(u.id, active)

Spec == Init /\ [][Next]_vars

\* the same system when the database can fail the insert of a refresh-token row
NextStoreFailure ==
    \/ Next
    \/ \E p \in Procs : StoreRefreshTokenFails(p)

SpecStoreFailure == Init /\ [][NextStoreFailure]_vars

\* Registrations that are issued again after the database failed them.
RedriveStep(p) ==
    \/ SignupEmailExists(p, Emails, {})
    \/ SignupCreate(p, MaxTokens)
    \/ StoreRefreshToken(p)
    \/ StoreRefreshTokenFails(p)

NextRedrive == \E p \in Procs : RedriveStep(p)

SpecRedrive == Init /\ [][NextRedrive]_vars

\* Rotation under contention: one session, refreshed and logged out by
\* requests that overlap; each of two overlapping refreshes mints a pair.
RotationTokens == MaxTokens + 1

RotationStep(p) ==
    \/ SignupEmailExists(p, SessionEmails, {})
    \/ SignupCreate(p, RotationTokens)
    \/ StoreRefreshToken(p)
    \/ LogoutDeleteToken(p)
    \/ RefreshVerify(p, Presentable)
    \/ RefreshFindByToken(p)
    \/ RefreshFindById(p, RotationTokens)
    \/ RefreshRevokeToken(p)

NextRotation == \E p \in Procs : RotationStep(p)

SpecRotation == Init /\ [][NextRotation]_vars

\* Expiry: a session outlived by the clock, refreshed and logged out by
\* requests that overlap.
ExpiryStep(p) ==
    \/ SignupEmailExists(p, SessionEmails, {})
    \/ SignupCreate(p, MaxTokens)
    \/ StoreRefreshToken(p)
    \/ LogoutDeleteToken(p)
    \/ RefreshVerify(p, Presentable)
    \/ RefreshFindByToken(p)
    \/ RefreshDeleteExpired(p)
    \/ RefreshFindById(p, MaxTokens)
    \/ RefreshRevokeToken(p)

NextExpiry ==
    \/ \E p \in Procs : ExpiryStep(p)
    \/ Tick

SpecExpiry == Init /\ [][NextExpiry]_vars

\* The sessions of a service started in any environment getConfig accepts.
InitSecrets ==
    /\ InitTables
    /\ \E env \in Envs : getConfigAccepts(env) /\ config = getConfig(env)

SecretsStep(p) ==
    \/ SignupEmailExists(p, SessionEmails, {})
    \/ SignupCreate(p, MaxTokens)
    \/ StoreRefreshToken(p)
    \/ RefreshVerify(p, Presentable \cup AccessTokens)
    \/ RefreshFindByToken(p)
    \/ RefreshFindById(p, MaxTokens)
    \/ RefreshRevokeToken(p)

NextSecrets == \E p \in Procs : SecretsStep(p)

SpecSecrets == InitSecrets /\ [][NextSecrets]_vars

\* The profile of one account, as signup, login, getProfile and updateProfile
\* return it.
ProfileStep(p) ==
    \/ SignupEmailExists(p, SessionEmails, Usernames)
    \/ SignupUsernameExists(p)
    \/ SignupCreate(p, MaxTokens)
    \/ StoreRefreshToken(p)
    \/ LoginFindByEmail(p, SessionEmails, MaxTokens)
    \/ GetProfile(p)
    \/ UpdateFindById(p, UsernamePartials)
    \/ UpdateUsernameExists(p)
    \/ UpdateById(p)

NextProfile == \E p \in Procs : ProfileStep(p)

SpecProfile == Init /\ [][NextProfile]_vars

\* Accounts that can be deleted while requests for them are in flight.
DeletionStep(p) ==
    \/ SignupEmailExists(p, SessionEmails, Usernames)
    \/ SignupUsernameExists(p)
    \/ SignupCreate(p, MaxTokens)
    \/ StoreRefreshToken(p)
    \/ GetProfile(p)
    \/ UpdateFindById(p, UsernamePartials)
    \/ UpdateUsernameExists(p)
    \/ UpdateById(p)

NextDeletion ==
    \/ \E p \in Procs : DeletionStep(p)
    \/ \E u \in users : DeleteById(u.id)

SpecDeletion == Init /\ [][NextDeletion]_vars

\* The profiles of several users, updated field by field.
UpdateStep(p) ==
    \/ SignupEmailExists(p, Emails, {})
    \/ SignupCreate(p, MaxTokens)
    \/ StoreRefreshToken(p)
    \/ UpdateFindById(p, FieldPartials)
    \/ UpdateUsernameExists(p)
    \/ UpdateById(p)

NextUpdate == \E p \in Procs : UpdateStep(p)

SpecUpdate == Init /\ [][NextUpdate]_vars

\* The protected routes of one account, with any Authorization header, while
\* the account is deactivated and its access tokens expire.
RoutesStep(p) ==
    \/ SignupEmailExists(p, SessionEmails, {})
    \/ SignupCreate(p, MaxTokens)
    \/ StoreRefreshToken(p)
    \/ AuthenticateRejects(p)
    \/ LogoutDeleteToken(p)
    \/ GetProfile(p)
    \/ UpdateFindById(p, UsernamePartials)
    \/ UpdateUsernameExists(p)
    \/ UpdateById(p)

NextRoutes ==
    \/ \E p \in Procs : RoutesStep(p)
    \/ \E u \in users : \E active \in BOOLEAN : SetActive(u.id, active)
    \/ Tick

SpecRoutes == Init /\ [][NextRoutes]_vars

\* Access tokens against the sessions they were issued with: a session that
\* is rotated, logged out and outlived by the clock, and the profile route.
AccessStep(p) ==
    \/ ExpiryStep(p)
    \/ GetProfile(p)

NextAccess ==
    \/ \E p \in Procs : AccessStep(p)
    \/ Tick

SpecAccess == Init /\ [][NextAccess]_vars

\* A session that is rotated, logged out and outlived by the clock, while the
\* sweep purges the refresh-token table.
NextPurge ==
    \/ \E p \in Procs : ExpiryStep(p)
    \/ Tick
    \/ CleanupExpiredTokens

SpecPurge == Init /\ [][NextPurge]_vars

\* The identities in the tokens: sessions of several users that are rotated
\* while the users change their usernames.
IdentityStep(p) ==
    \/ SignupEmailExists(p, Emails, {})
    \/ SignupCreate(p, RotationTokens)
    \/ StoreRefreshToken(p)
    \/ RefreshVerify(p, Presentable)
    \/ RefreshFindByToken(p)
    \/ RefreshFindById(p, RotationTokens)
    \/ RefreshRevokeToken(p)
    \/ UpdateFindById(p, UsernamePartials)
    \/ UpdateUsernameExists(p)
    \/ UpdateById(p)

NextIdentity == \E p \in Procs : IdentityStep(p)

SpecIdentity == Init /\ [][NextIdentity]_vars

\* The logins of one client address behind loginLimiter.
LimiterStep(p) ==
    \/ SignupEmailExists(p, SessionEmails, {})
    \/ SignupCreate(p, MaxTokens)
    \/ StoreRefreshToken(p)
    \/ LimitedLogin(p, SessionEmails, MaxTokens)

NextLimiter ==
    \/ \E p \in Procs : LimiterStep(p)
    \/ WindowElapses

SpecLimiter == Init /\ [][NextLimiter]_vars

\* The sessions several users open by logging in.
LoginsStep(p) ==
    \/ SignupEmailExists(p, Emails, {})
    \/ SignupCreate(p, RotationTokens)
    \/ StoreRefreshToken(p)
    \/ LoginFindByEmail(p, Emails, RotationTokens)

NextLogins == \E p \in Procs : LoginsStep(p)

SpecLogins == Init /\ [][NextLogins]_vars

\* A session that is rotated while its user is deactivated, reactivated or
\* deleted.
ReactivationStep(p) ==
    \/ SignupEmailExists(p, SessionEmails, {})
    \/ SignupCreate(p, MaxTokens)
    \/ StoreRefreshToken(p)
    \/ RefreshVerify(p, Presentable)
    \/ RefreshFindByToken(p)
    \/ RefreshFindById(p, MaxTokens)
    \/ RefreshRevokeToken(p)

NextReactivation ==
    \/ \E p \in Procs : ReactivationStep(p)
    \/ \E u \in users : \E active \in BOOLEAN : SetActive(u.id, active)
    \/ \E u \in users : DeleteById(u.id)

SpecReactivation == Init /\ [][NextReactivation]_vars

\* The sessions of several users, each of whom may log any token out.
OwnershipStep(p) ==
    \/ SignupEmailExists(p, Emails, {})
    \/ SignupCreate(p, MaxTokens)
    \/ StoreRefreshToken(p)
    \/ LogoutDeleteToken(p)

NextOwnership == \E p \in Procs : OwnershipStep(p)

SpecOwnership == Init /\ [][NextOwnership]_vars

\* The accounts: registrations and profile updates of several users.
UsersStep(p) ==
    \/ SignupEmailExists(p, Emails, Usernames)
    \/ SignupUsernameExists(p)
    \/ SignupCreate(p, MaxTokens)
    \/ StoreRefreshToken(p)
    \/ UpdateFindById(p, UsernamePartials)
    \/ UpdateUsernameExists(p)
    \/ UpdateById(p)

NextUsers == \E p \in Procs : UsersStep(p)

SpecUsers == Init /\ [][NextUsers]_vars

\* ------------------------------------------------------------ properties
Done(p, o) == pc[p] = "done" /\ op[p] = o

Unauthorized(message) == [status |-> 401, message |-> message]

\* a token refreshToken would accept: it verifies and its record passes the lookup
Refreshable(token) ==
    /\ verifyRefreshToken(token, now)
    /\ ~InvalidStoredToken(findByToken(token))
    /\ ~(findByToken(token).expiresAt < now)

\* C1: a refreshToken(T) call that starts after a refreshToken(T) call has
\* returned a new pair never gets past the store lookup, and it fails with
\* 401 'Invalid refresh token', whatever else has happened in between.
C1_RotationSingleUse ==
    \A p \in Procs :
        (op[p] = "refresh" /\ g[p].afterRotation) =>
            /\ pc[p] \in {"findByToken", "done"}
            /\ pc[p] = "done" =>
                   /\ ~result[p].ok
                   /\ result[p].tokens = NoTokens
                   /\ Response(p) = Unauthorized("Invalid refresh token")

\* a replay of an exchanged token has been answered
C1_Witness ==
    \E p \in Procs : Done(p, "refresh") /\ g[p].afterRotation /\ arg[p].token # Garbage

\* C2: a refresh token never yields two successor tokens: of two
\* refreshToken(T) calls whose steps interleave at most one returns a pair.
C2_OneSuccessor ==
    \A x, y \in exchanged : x.old = y.old => x.new = y.new

\* C3: in every state in which a refreshToken(T) call has returned a new
\* pair, T's record is revoked or absent, so T and its successor are never
\* both refreshable.
C3_OldTokenUnusable ==
    \A x \in exchanged :
        /\ InvalidStoredToken(findByToken(x.old))
        /\ ~(Refreshable(x.old) /\ Refreshable(x.new))

\* a successor has been handed out and is refreshable, the old record is revoked
C3_Witness ==
    \E x \in exchanged :
        /\ TokenStored(x.old) /\ findByToken(x.old).isRevoked
        /\ Refreshable(x.new)

\* C4: no refreshToken(T) call terminates having revoked T's record without
\* having created the successor record, even when the store write fails.
C4_SuccessorPersisted ==
    \A p \in Procs : (Done(p, "refresh") /\ g[p].revoked) => g[p].stored

C6_LoggedOutTerminal ==
    /\ \A t \in loggedOut : ~TokenStored(t)
    /\ \A p \in Procs :
        (op[p] = "refresh" /\ g[p].afterLogout) =>
            /\ pc[p] \in {"findByToken", "done"}
            /\ pc[p] = "done" =>
                   /\ ~result[p].ok
                   /\ Response(p) = Unauthorized("Invalid refresh token")

\* a refresh of a logged-out token that still verifies has been answered
C6_Witness ==
    \E p \in Procs :
        /\ Done(p, "refresh") /\ g[p].afterLogout
        /\ verifyRefreshToken(arg[p].token, now)

\* C7: logout(T) reports success for any T, and a logout(T) that follows a
\* completed logout(T), or finds no record of T, leaves the store as it was.
C7_LogoutIdempotent ==
    [][\A p \in Procs :
          (op'[p] = "logout" /\ pc'[p] = "done") =>
              /\ result'[p].ok
              /\ result'[p].error = NoError
              /\ ~TokenStored(arg'[p].token) => refreshTokens' = refreshTokens
              /\ g'[p].afterLogout => refreshTokens' = refreshTokens]_vars

\* a second logout of the same token has been answered
C7_Witness ==
    \E p \in Procs :
        /\ Done(p, "logout") /\ g[p].afterLogout /\ result[p].ok
        /\ Response(p).status = 200

\* C8: every refreshToken call that does not return a pair fails with the
\* Unauthorized error kind (401), also when a logout or another refresh of
\* the same token runs between its lookup and its revoke or delete write.
C8_FailuresUnauthorized ==
    \A p \in Procs :
        (Done(p, "refresh") /\ ~result[p].ok) => Response(p).status = 401

\* C9: no two User records share an email, and no two User records share a
\* username that is not null.
C9_Uniqueness ==
    \A u, v \in users :
        u.id # v.id =>
            /\ u.email # v.email
            /\ u.username # Undefined => u.username # v.username

\* two users are registered and a request was refused by a unique index
C9_Witness ==
    /\ Cardinality(users) = 2
    /\ \E p \in Procs :
        /\ pc[p] = "done" /\ op[p] \in {"signup", "updateProfile"}
        /\ result[p].error = PrismaError("P2002", "username")

\* C10: of two signup calls for the same email or username that both pass
\* the existence checks before either creates the user, the one that creates
\* it is answered 201 and the other creates nothing and is answered 409.
C10_SignupRace ==
    \A p \in Procs :
        /\ (op[p] = "signup" /\ g[p].lostRace) =>
               /\ pc[p] \in {"create", "done"}
               /\ pc[p] = "done" => (~result[p].ok /\ Response(p).status = 409)
        /\ (op[p] = "signup" /\ g[p].wonRace) =>
               /\ pc[p] \in {"store", "done"}
               /\ Cardinality({u \in users : u.email = arg[p].email}) = 1
               /\ pc[p] = "done" => (result[p].ok /\ Response(p).status = 201)

\* the loser of a signup race has been answered
C10_Witness ==
    \E p \in Procs : Done(p, "signup") /\ g[p].lostRace

\* C11: a signup whose email belongs to a user, or whose username is taken
\* when it is checked, terminates at that check with Conflict (409) in a step
\* that changes neither table; a taken email is reported even when the
\* username is taken too.
C11_SignupConflict ==
    [][\A p \in Procs :
          /\ (op'[p] = "signup" /\ g'[p].emailTaken) =>
                 /\ pc'[p] = "done"
                 /\ result'[p].error = ConflictError("Email address is already registered")
                 /\ errorHandler(result'[p].error).status = 409
                 /\ users' = users /\ refreshTokens' = refreshTokens
          /\ (op'[p] = "signup" /\ g'[p].usernameTaken) =>
                 /\ pc'[p] = "done"
                 /\ result'[p].error = ConflictError("Username is already taken")
                 /\ errorHandler(result'[p].error).status = 409
                 /\ users' = users /\ refreshTokens' = refreshTokens]_vars

\* a signup whose email and username are both taken has been answered
C11_Witness ==
    \E p \in Procs :
        /\ Done(p, "signup") /\ g[p].emailTaken
        /\ \E u \in users : u.username = arg[p].username
        /\ Response(p) = [status |-> 409, message |-> "Email address is already registered"]

Minted == {loc[p].newTokens : p \in Procs} \cup {result[p].tokens : p \in Procs}

\* C14: whatever secrets the configuration loader accepted, an access token
\* the service minted is rejected by verifyRefreshToken and a refresh token
\* it minted is rejected by verifyAccessToken.
C14_SecretIsolation ==
    \A pair \in Minted \ {NoTokens} :
        /\ ~verifyRefreshToken(pair.accessToken, now)
        /\ ~verifyAccessToken(pair.refreshToken, now)

\* the request p has taken a step: it arrived, or it moved on from an await
Stepped(p) == pc'[p] = "done" \/ pc'[p] # pc[p]

\* C15: a refreshToken call whose token does not verify (bad signature or
\* expired) ends in its first step, before any await on a store, with
\* Unauthorized 'Invalid refresh token', and that step changes neither table.
C15_VerifyFirst ==
    [][\A p \in Procs :
          (op'[p] = "refresh" /\ g'[p].unverifiable) =>
              /\ pc'[p] = "done" /\ pc[p] \in {"idle", "done"}
              /\ g'[p].lookup = "none"
              /\ result'[p].error = UnauthorizedError("Invalid refresh token")
              /\ errorHandler(result'[p].error) = Unauthorized("Invalid refresh token")
              /\ users' = users /\ refreshTokens' = refreshTokens]_vars

\* a refresh with an expired token whose record is in the store has been answered
C15_Witness ==
    \E p \in Procs :
        /\ Done(p, "refresh") /\ g[p].unverifiable
        /\ arg[p].token \in handedOut /\ TokenStored(arg[p].token)

\* C16: a refresh token that verifies but has no record, one whose record is
\* revoked and a malformed one get the same error, Unauthorized 'Invalid
\* refresh token', from a call that changes neither table.
C16_InvalidIndistinguishable ==
    [][\A p \in Procs :
          (/\ op'[p] = "refresh" /\ Stepped(p)
           /\ \/ g'[p].lookup \in {"absent", "revoked"}
              \/ g'[p].unverifiable /\ arg'[p].token = Garbage) =>
              /\ pc'[p] = "done"
              /\ result'[p].error = UnauthorizedError("Invalid refresh token")
              /\ errorHandler(result'[p].error) = Unauthorized("Invalid refresh token")
              /\ users' = users /\ refreshTokens' = refreshTokens]_vars

\* a refresh with a token that verifies and has no record has been answered
C16_Witness ==
    \E p \in Procs :
        /\ Done(p, "refresh") /\ g[p].lookup = "absent"
        /\ verifyRefreshToken(arg[p].token, now)

\* C17: after a refreshToken call with a token whose embedded expiry is in
\* the past has failed, the store holds no record of that token.
C17_ExpiredRecordRemoved ==
    \A p \in Procs :
        (Done(p, "refresh") /\ g[p].expired) =>
            /\ Response(p).status = 401
            /\ findByToken(arg[p].token) = NoRecord

\* C18: a refreshToken(T) that starts after T was exchanged is rejected, and
\* its steps change no refresh-token record and no user: a descendant of T
\* that could be refreshed before the replay can be refreshed after it.
C18_ReplayHasNoEffect ==
    [][\A p \in Procs :
          (op'[p] = "refresh" /\ g'[p].afterRotation /\ Stepped(p)) =>
              /\ pc'[p] = "done" => ~result'[p].ok
              /\ refreshTokens' = refreshTokens /\ users' = users
              /\ \A x \in exchanged :
                    (x.old = arg'[p].token /\ Refreshable(x.new)) => Refreshable(x.new)']_vars

\* a replay has been rejected and the descendant of the token is refreshable
C18_Witness ==
    \E p \in Procs :
        /\ Done(p, "refresh") /\ g[p].afterRotation /\ ~result[p].ok
        /\ \E x \in exchanged : x.old = arg[p].token /\ Refreshable(x.new)

\* C19: a token string that is persisted was never persisted before, also
\* when the earlier record has been revoked or deleted, and the refresh
\* token returned by refreshToken(T) is not T.
C19_TokensNeverReused ==
    [][/\ \A r \in refreshTokens' :
              (\A q \in refreshTokens : q.token # r.token) => r.token \notin handedOut
       /\ \A x \in exchanged' : x.new # x.old]_vars

\* a token's record has been deleted while another token of the same user is
\* stored, and a refresh has returned a successor
C19_Witness ==
    /\ \E t \in loggedOut : \E r \in refreshTokens : r.token # t /\ r.userId = t.userId
    /\ exchanged # {}

\* the fields of a returned profile
ProfileFields ==
    {"id", "email", "username", "name", "phone", "isActive", "createdAt", "updatedAt"}

\* C20: what signup, login, getProfile and updateProfile return has no
\* password field: the profile has exactly the fields id, email, username,
\* name, phone, isActive, createdAt and updatedAt of the user's row, and the
\* tokens carry the identity payload only.
C20_ProfileSanitized ==
    \A p \in Procs :
        (/\ pc[p] = "done" /\ result[p].ok
         /\ op[p] \in {"signup", "login", "getProfile", "updateProfile"}) =>
            /\ DOMAIN result[p].user = ProfileFields
            /\ "password" \notin DOMAIN result[p].user
            /\ "password" \notin DOMAIN result[p].tokens.accessToken
            /\ "password" \notin DOMAIN result[p].tokens.refreshToken
            /\ \E u \in users :
                  /\ u.id = result[p].user.id
                  /\ \A f \in {"email", "isActive", "createdAt"} : result[p].user[f] = u[f]

\* getProfile has returned the profile of a user who has a password digest
C20_Witness ==
    \E p \in Procs :
        /\ Done(p, "getProfile") /\ result[p].ok
        /\ findById(result[p].user.id).password = Hash("Secret123!")

\* C21: getProfile and updateProfile of an id that no user has are answered
\* 404 Not Found by a step that writes nothing: at the lookup with
\* NotFoundError 'User not found', and at updateProfile's update, when the
\* user has disappeared since the lookup, through the store's error.
C21_NotFound ==
    [][\A p \in Procs :
          (/\ op'[p] \in {"getProfile", "updateProfile"} /\ Stepped(p)
           /\ \A u \in users : u.id # arg'[p].userId) =>
              /\ users' = users /\ refreshTokens' = refreshTokens
              /\ pc[p] \in {"idle", "done"} =>
                     /\ pc'[p] = "done"
                     /\ result'[p].error = NotFoundError("User not found")
              /\ pc[p] = "updateById" =>
                     /\ pc'[p] = "done" /\ ~result'[p].ok
                     /\ errorHandler(result'[p].error).status = 404]_vars

\* an updateProfile whose user disappeared after the lookup has been answered
C21_Witness ==
    \E p \in Procs :
        /\ Done(p, "updateProfile") /\ ~result[p].ok
        /\ result[p].error = PrismaError("P2025", "")
        /\ \A u \in users : u.id # arg[p].userId


\* C22: updateProfile fails with Conflict only when the username it was asked
\* to set is held by another user than the one it addresses.
C22_ConflictOnlyWhenTakenByAnother ==
    \A p \in Procs :
        (/\ Done(p, "updateProfile")
         /\ result[p].error = ConflictError("Username is already taken")) =>
            \E u \in users : u.id # arg[p].userId /\ u.username = arg[p].username


\* the row of id keeps field f, or takes it from partial when partial has it
Kept(old, new, partial, f) ==
    \/ new[f] = old[f]
    \/ partial[f] # Undefined /\ new[f] = partial[f]

\* C23: a step of updateProfile changes, on the addressed user only, only those
\* of username, name and phone that partial carries (and sets them when it
\* succeeds); id, email, password digest, isActive, the fields absent from
\* partial, every other user and every refresh-token record are unchanged.
C23_UpdateFrame ==
    [][\A p \in Procs :
          (op'[p] = "updateProfile" /\ Stepped(p)) =>
              /\ refreshTokens' = refreshTokens
              /\ {u.id : u \in users'} = {u.id : u \in users}
              /\ \A u \in users : u.id # arg'[p].userId => u \in users'
              /\ \A u \in users : \A v \in users' :
                    (u.id = arg'[p].userId /\ v.id = u.id) =>
                        /\ v.email = u.email /\ v.password = u.password
                        /\ v.isActive = u.isActive /\ v.createdAt = u.createdAt
                        /\ \A f \in {"username", "name", "phone"} :
                              Kept(u, v, arg'[p], f)
                        /\ (pc'[p] = "done" /\ result'[p].ok) =>
                              \A f \in {"username", "name", "phone"} :
                                  arg'[p][f] # Undefined => v[f] = arg'[p][f]]_vars

\* an update of the phone alone has kept the name set before, beside another user
C23_Witness ==
    \E p \in Procs : \E u, w \in users :
        /\ Done(p, "updateProfile") /\ result[p].ok
        /\ arg[p].name = Undefined /\ arg[p].phone # Undefined
        /\ u.id = arg[p].userId /\ u.name # Undefined /\ u.phone = arg[p].phone
        /\ w.id # u.id


\* C24: the User Store never throws on not-found: an updateById that matches
\* no row completes without error and leaves the users unchanged.
C24_UpdateByIdNeverThrows ==
    [][\A p \in Procs :
          (/\ pc[p] = "updateById" /\ Stepped(p)
           /\ findById(arg[p].userId) = NoUser) =>
              users' = users /\ result'[p].error = NoError]_vars

\* C25: deleteToken of a token that has no record completes without error and
\* leaves the refresh tokens unchanged: the expired branch of refreshToken goes
\* on to its own throw.
C25_DeleteIdempotent ==
    [][\A p \in Procs :
          (/\ pc[p] = "deleteExpired" /\ Stepped(p)
           /\ ~TokenStored(arg[p].token)) =>
              /\ refreshTokens' = refreshTokens
              /\ result'[p].error = UnauthorizedError("Refresh token has expired")]_vars


\* routes/auth.routes.ts: the routes behind authenticate
Protected == {"logout", "getProfile", "updateProfile"}

\* the request p arrives in this step
Arrives(p) == pc[p] \in {"idle", "done"} /\ Stepped(p)

\* C26: a request for a protected route whose token names a user that is
\* missing or inactive is rejected as unauthorized.
C26_InactiveUserRejected ==
    [][\A p \in Procs :
          (/\ Arrives(p) /\ op'[p] \in Protected
           /\ UserMissingOrInactive(findById(arg'[p].authorization.token.userId))) =>
              pc'[p] = "done" /\ errorHandler(result'[p].error).status = 401]_vars

\* the header is present, starts with 'Bearer ' and carries a token that
\* verifies as an access token at time t
WellAuthorized(header, t) ==
    /\ header.present /\ header.scheme = "Bearer" /\ header.token # NoBearerToken
    /\ header.token.sig = config.JWT_ACCESS_SECRET /\ t < header.token.exp

\* C27: a request for logout, getProfile or updateProfile is executed only if
\* its Authorization header is present, starts with 'Bearer ' and carries a
\* token verifyAccessToken accepts; any other is answered 401 and changes
\* neither the users nor the refresh tokens.
C27_ProtectedRoutes ==
    [][\A p \in Procs :
          (op'[p] \in Protected /\ Stepped(p)) =>
              IF Arrives(p)
              THEN \/ WellAuthorized(arg'[p].authorization, now)
                   \/ /\ pc'[p] = "done"
                      /\ errorHandler(result'[p].error).status = 401
                      /\ users' = users /\ refreshTokens' = refreshTokens
              ELSE /\ arg[p].authorization.present
                   /\ arg[p].authorization.scheme = "Bearer"
                   /\ arg[p].authorization.token.sig = config.JWT_ACCESS_SECRET]_vars

\* a request that presents a stored refresh token as its bearer token has been
\* answered 401
C27_Witness ==
    \E p \in Procs :
        /\ Done(p, "getProfile") /\ Response(p).status = 401
        /\ arg[p].authorization.scheme = "Bearer"
        /\ TokenStored(arg[p].authorization.token)


\* C28: a login for the email of a registered user goes on exactly when the
\* password is the one signup hashed and the user is active, and is answered
\* 401 otherwise; a login that goes on returns that user and a token pair that
\* was not handed out before and whose refresh token is stored for the user.
C28_SignupLoginRoundTrip ==
    [][\A p \in Procs :
          (op'[p] = "login" /\ Stepped(p)) =>
              IF Arrives(p)
              THEN \A u \in users :
                      u.email = arg'[p].email =>
                          IF u.password = Hash(arg'[p].password) /\ u.isActive
                          THEN pc'[p] = "store" /\ loc'[p].user = u
                          ELSE /\ pc'[p] = "done"
                               /\ errorHandler(result'[p].error).status = 401
              ELSE /\ pc'[p] = "done" /\ result'[p].ok
                   /\ result'[p].user = mapUserToProfile(loc[p].user)
                   /\ result'[p].user.email = arg[p].email
                   /\ result'[p].tokens.refreshToken \notin handedOut
                   /\ \E r \in refreshTokens' :
                         /\ r.token = result'[p].tokens.refreshToken
                         /\ r.userId = result'[p].user.id /\ ~r.isRevoked]_vars

\* a login has returned a second pair for the user signup registered
C28_Witness ==
    \E p \in Procs :
        /\ Done(p, "login") /\ result[p].ok
        /\ TokenStored(result[p].tokens.refreshToken)
        /\ \E t \in handedOut :
              t # result[p].tokens.refreshToken /\ t.userId = result[p].user.id


\* C29: a signup can be issued again after it failed: a signup is refused
\* with Conflict only if another request registered its email, one that
\* returned tokens for it or one that is still in flight.
C29_SignupRedrive ==
    \A p \in Procs :
        (Done(p, "signup") /\ Response(p).status = 409) =>
            \/ \E t \in handedOut : t.email = arg[p].email
            \/ \E q \in Procs \ {p} : op[q] = "signup" /\ arg[q].email = arg[p].email


\* C30: when signup, login or refreshToken returns a refresh token, the store
\* holds a record with that token, the id of the user it was issued for and
\* isRevoked = false; a call whose record is not created returns no tokens.
C30_DurableShadow ==
    [][\A p \in Procs :
          (/\ op'[p] \in {"signup", "login", "refresh"}
           /\ pc'[p] = "done" /\ Stepped(p)) =>
              /\ result'[p].tokens # NoTokens =>
                    \E r \in refreshTokens' :
                        /\ r.token = result'[p].tokens.refreshToken
                        /\ r.userId = loc[p].user.id
                        /\ r.userId = r.token.userId
                        /\ ~r.isRevoked
              /\ (pc[p] = "store" /\ refreshTokens' \subseteq refreshTokens) =>
                    ~result'[p].ok /\ result'[p].tokens = NoTokens]_vars

\* a refreshToken call has returned a pair whose refresh token is stored for
\* the user the pair names
C30_Witness ==
    \E p \in Procs :
        /\ Done(p, "refresh") /\ result[p].ok
        /\ \E r \in refreshTokens :
              /\ r.token = result[p].tokens.refreshToken
              /\ r.userId = r.token.userId /\ ~r.isRevoked
              /\ result[p].tokens.accessToken = accessTokenOf(r.token)


\* C31: access tokens are verified statelessly: the access token issued with a
\* refresh token T is accepted by authenticate exactly until its own expiry,
\* also after logout(T), after T was rotated and when T has no record.
C31_StatelessAccess ==
    \A t \in handedOut :
        (t \in loggedOut \/ RefreshedBefore(t) \/ ~TokenStored(t)) =>
            (authenticate(Header("Bearer", accessTokenOf(t)), now) = NoError
                <=> now < accessTokenOf(t).exp)

\* getProfile has been served to the access token of a session that was logged
\* out and has no record left
C31_Witness ==
    \E p \in Procs : \E t \in loggedOut :
        /\ Done(p, "getProfile") /\ result[p].ok
        /\ arg[p].authorization.token = accessTokenOf(t)
        /\ \A r \in refreshTokens : r.userId # t.userId


\* C32: the sweep removes exactly the records that are expired or revoked,
\* never a record that is neither, and for every token string a refreshToken
\* call is accepted after the sweep exactly if it was before it.
C32_PurgeIsHygiene ==
    [][CleanupExpiredTokens =>
          /\ \A r \in refreshTokens :
                r \in refreshTokens' <=> ~(r.expiresAt < now \/ r.isRevoked)
          /\ refreshTokens' \subseteq refreshTokens
          /\ \A t \in Presentable : Refreshable(t)' <=> Refreshable(t)]_vars

\* the sweep has removed the revoked record of a rotated token and kept the
\* record of its successor
C32_Witness ==
    \E x \in exchanged :
        /\ ~TokenStored(x.old) /\ TokenStored(x.new)
        /\ x.old \notin loggedOut
        /\ \A p \in Procs : pc[p] \in {"idle", "done"}
        /\ now < x.old.exp


\* C33: every stored record carries the userId and the expiry embedded in its
\* token; a refreshToken(T) call mints its pair for the user that owns T's
\* record, with the email and username the User Store holds for that user,
\* and when it succeeds it has created one record, for that user and that pair.
C33_NoPrivilegeConfusion ==
    [][/\ \A r \in refreshTokens' :
             r.userId = r.token.userId /\ r.expiresAt = r.token.exp
       /\ \A p \in Procs :
             (op'[p] = "refresh" /\ Stepped(p)) =>
                 /\ (pc[p] = "findById" /\ pc'[p] = "revokeToken") =>
                       \E u \in users :
                           /\ u.id = arg[p].token.userId
                           /\ \A r \in refreshTokens :
                                 r.token = arg[p].token => r.userId = u.id
                           /\ \A t \in {loc'[p].newTokens.accessToken,
                                         loc'[p].newTokens.refreshToken} :
                                 /\ t.userId = u.id /\ t.email = u.email
                                 /\ t.username = u.username
                 /\ (pc'[p] = "done" /\ result'[p].ok) =>
                       /\ result'[p].tokens = loc[p].newTokens
                       /\ refreshTokens' \ refreshTokens =
                             {[token |-> result'[p].tokens.refreshToken,
                               userId |-> arg[p].token.userId,
                               expiresAt |-> result'[p].tokens.refreshToken.exp,
                               isRevoked |-> FALSE]}]_vars

\* a rotation has returned a pair that carries the username the user took
\* after the rotated token was issued, beside the session of another user
C33_Witness ==
    \E p \in Procs :
        /\ Done(p, "refresh") /\ result[p].ok
        /\ result[p].tokens.refreshToken.username # Undefined
        /\ arg[p].token.username = Undefined
        /\ result[p].tokens.refreshToken.userId = arg[p].token.userId
        /\ \E r \in refreshTokens : r.userId # arg[p].token.userId


\* the logins of other requests that have been passed on and not yet answered
LoginsInFlight(p) == Cardinality({q \in Procs \ {p} : op[q] = "login" /\ pc[q] = "store"})

\* C34: once LoginMax failed login responses have been served in the window,
\* a login request is answered 429 and login is not invoked; a request is
\* answered 429 only when the failed responses of the window, with the logins
\* still in flight, have used the allowance up: a successful login leaves it
\* as it was.
C34_LoginLimiter ==
    [][\A p \in Procs :
          /\ (op'[p] = "login" /\ Arrives(p)) =>
                /\ loginLimiter.failed >= LoginMax =>
                      /\ pc'[p] = "done"
                      /\ errorHandler(result'[p].error).status = 429
                      /\ issued' = issued /\ users' = users
                      /\ refreshTokens' = refreshTokens
                /\ errorHandler(result'[p].error).status = 429 =>
                      loginLimiter.failed + LoginsInFlight(p) >= LoginMax
          /\ (op[p] = "login" /\ pc[p] = "store" /\ pc'[p] = "done" /\ result'[p].ok) =>
                /\ loginLimiter'.failed = loginLimiter.failed
                /\ loginLimiter'.hits < loginLimiter.hits \/ loginLimiter.hits = 0]_vars


\* C35: login never touches existing sessions: a login that succeeds adds
\* exactly one record, a new one for its user, and leaves every stored record
\* as it was; no other step of a login changes the users or the records.
C35_LoginFrame ==
    [][\A p \in Procs :
          (op'[p] = "login" /\ Stepped(p)) =>
              /\ users' = users
              /\ IF pc'[p] = "done" /\ result'[p].ok
                 THEN \E r \in refreshTokens' \ refreshTokens :
                         /\ refreshTokens' = refreshTokens \cup {r}
                         /\ r.token = result'[p].tokens.refreshToken
                         /\ r.userId = result'[p].user.id
                         /\ ~TokenStored(r.token)
                 ELSE refreshTokens' = refreshTokens]_vars

\* after a login the user holds two refresh tokens that a refreshToken call
\* would both accept, beside the session of another user
C35_Witness ==
    \E p \in Procs : \E t \in handedOut :
        /\ Done(p, "login") /\ result[p].ok
        /\ t # result[p].tokens.refreshToken
        /\ t.userId = result[p].user.id
        /\ Refreshable(t) /\ Refreshable(result[p].tokens.refreshToken)
        /\ \E r \in refreshTokens : r.userId # t.userId


\* C36: a refreshToken(T) call that finds T's user missing or inactive fails
\* with 401 and changes neither T's record nor anything else; a call that
\* finds T's record valid and then the user active goes on, so T can be
\* exchanged once the user is active again.
C36_InactiveLeavesToken ==
    [][\A p \in Procs :
          (op[p] = "refresh" /\ Stepped(p)) =>
              /\ pc[p] = "findById" =>
                    IF \A u \in users : u.id = arg[p].token.userId => ~u.isActive
                    THEN /\ pc'[p] = "done"
                         /\ result'[p].error = UnauthorizedError("User not found or inactive")
                         /\ refreshTokens' = refreshTokens /\ users' = users
                         /\ issued' = issued /\ handedOut' = handedOut
                    ELSE pc'[p] = "revokeToken"
              /\ (pc[p] = "findByToken" /\ Refreshable(arg[p].token)) =>
                    pc'[p] = "findById"]_vars

\* a refreshToken call has failed for the inactive user of a token whose
\* record is still stored and not revoked
C36_Witness ==
    \E p \in Procs :
        /\ Done(p, "refresh")
        /\ result[p].error = UnauthorizedError("User not found or inactive")
        /\ Refreshable(arg[p].token)
        /\ ~findById(arg[p].token.userId).isActive
        /\ findById(arg[p].token.userId) # NoUser


\* C37: whatever secrets are configured, a refreshToken call that presents an
\* access token returns no token pair, and no record is ever stored for an
\* access token.
C37_AccessTokenNotRefreshable ==
    /\ \A r \in refreshTokens : r.token \notin AccessTokens
    /\ \A p \in Procs :
          (Done(p, "refresh") /\ arg[p].token \in AccessTokens) =>
              ~result[p].ok /\ result[p].tokens = NoTokens

\* with one secret for both kinds of token, a refreshToken call that presented
\* an access token has passed verifyRefreshToken and failed at the lookup
C37_Witness ==
    \E p \in Procs :
        /\ Done(p, "refresh") /\ arg[p].token \in AccessTokens
        /\ config.JWT_ACCESS_SECRET = config.JWT_REFRESH_SECRET
        /\ verifyRefreshToken(arg[p].token, now)
        /\ result[p].error = UnauthorizedError("Invalid refresh token")


\* C38: logout performs no ownership check: logout(T) removes T's record
\* whoever the request is authenticated as, and removes no other record.
C38_LogoutNoOwnership ==
    [][\A p \in Procs :
          (op'[p] = "logout" /\ Arrives(p)) =>
              /\ refreshTokens' = {r \in refreshTokens : r.token # arg'[p].token}
              /\ users' = users
              /\ pc'[p] = "done" /\ result'[p].ok]_vars

\* a logout authenticated as one user has removed the record of another
\* user's token and left the caller's own record
C38_Witness ==
    \E p \in Procs :
        /\ Done(p, "logout") /\ result[p].ok
        /\ arg[p].token \in handedOut /\ ~TokenStored(arg[p].token)
        /\ arg[p].authorization.token.userId # arg[p].token.userId
        /\ \E r \in refreshTokens : r.userId = arg[p].authorization.token.userId


\* a token that was handed out and has no record, or a revoked one
Dead(token) ==
    /\ token \in handedOut
    /\ \A r \in refreshTokens : r.token = token => r.isRevoked

\* C39: revocation is monotonic: no step clears the isRevoked flag of a record
\* or stores a record for a token whose record was revoked or removed, and a
\* refreshToken call that looks such a token up is refused and writes nothing.
C39_RevocationMonotonic ==
    [][/\ \A r \in refreshTokens : \A r2 \in refreshTokens' :
             (r.isRevoked /\ r2.token = r.token) => r2.isRevoked
       /\ \A t \in handedOut : Dead(t) => Dead(t)'
       /\ \A p \in Procs :
             (/\ op[p] = "refresh" /\ pc[p] = "findByToken" /\ Stepped(p)
              /\ (Dead(arg[p].token) \/ ~TokenStored(arg[p].token))) =>
                 /\ pc'[p] = "done"
                 /\ errorHandler(result'[p].error).status = 401
                 /\ refreshTokens' = refreshTokens /\ issued' = issued]_vars

\* a refreshToken call has been refused for a token that was rotated and then
\* logged out: its revoked record was removed and it stays refused
C39_Witness ==
    \E p \in Procs :
        /\ Done(p, "refresh") /\ ~result[p].ok
        /\ RefreshedBefore(arg[p].token) /\ arg[p].token \in loggedOut
        /\ ~TokenStored(arg[p].token) /\ Dead(arg[p].token)
        /\ verifyRefreshToken(arg[p].token, now)

============================================================================
